---- MODULE Spec2Model ----
(***************************************************************************)
(* XTS mode core (xts/src/xts_core.rs): the per-block processor, the       *)
(* batched and tail variants, the ciphertext-stealing finisher and the     *)
(* buffer orchestrator process_all_in_place, as a state machine over one   *)
(* engine (tweak, direction, key) and one caller-owned byte buffer.        *)
(***************************************************************************)
EXTENDS Integers, Sequences, FiniteSets, TLC

(***************************************************************************)
(* Bounds of the model.                                                    *)
(***************************************************************************)
\* Self::block_size(), in bytes (a type parameter of the engine).
BlockSize == 3
\* The longest buffer holds MaxBlocks full blocks and a partial one.
MaxBlocks == 3
\* Self::ParBlocksSize::USIZE, the batch width.
ParBlocksSize == 2
\* How many distinct buffer contents, tweaks and keys Init draws from.
NumBufs == 2
NumTweaks == 3
NumKeys == 2

\* Width of a u8.
ByteBits == 8
ByteMod == 2 ^ ByteBits
\* Low byte of the reduction polynomial x^128 + x^7 + x^2 + x + 1.
GfPoly == 135

MaxUnits == IF MaxBlocks > ParBlocksSize THEN MaxBlocks ELSE ParBlocksSize
MaxLen == MaxUnits * BlockSize + (BlockSize - 1)

(***************************************************************************)
(* Bytes and blocks.                                                       *)
(***************************************************************************)
RECURSIVE XorBits(_, _, _)
XorBits(a, b, n) ==
    IF n = 0 THEN 0
    ELSE ((a + b) % 2) + 2 * XorBits(a \div 2, b \div 2, n - 1)

\* crate::xor(dst, src): dst[i] ^= src[i].
xor(dst, src) == [i \in 1..Len(dst) |-> XorBits(dst[i], src[i], ByteBits)]

\* crate::gf::gf_mul: multiply by x, little-endian bytes; returns the carry.
gf_mul(t) ==
    LET n == Len(t)
        c == t[n] \div (ByteMod \div 2)
        sh == [i \in 1..n |->
                 ((t[i] * 2) % ByteMod)
                 + (IF i = 1 THEN 0 ELSE t[i - 1] \div (ByteMod \div 2))]
    IN  [iv |-> IF c = 1
                THEN [sh EXCEPT ![1] = XorBits(sh[1], GfPoly, ByteBits)]
                ELSE sh,
         carry |-> c]

\* crate::gf::gf_reverse_mul: divide by x given the carry gf_mul returned.
gf_reverse_mul(t, c) ==
    LET n == Len(t)
        a == IF c = 1 THEN [t EXCEPT ![1] = XorBits(t[1], GfPoly, ByteBits)]
             ELSE t
    IN  [i \in 1..n |->
           (a[i] \div 2)
           + (ByteMod \div 2) * (IF i = n THEN c ELSE a[i + 1] % 2)]

(***************************************************************************)
(* The cipher engine: a keyed permutation of blocks (a generalised Feistel *)
(* network), decrypt undoing encrypt round by round.                       *)
(***************************************************************************)
RoundF(x, k) == (x * x + 3 * x + k) % ByteMod

EncRound(k, b) ==
    Tail(b) \o <<XorBits(b[1], RoundF(b[2], k), ByteBits)>>

DecRound(k, c) ==
    LET n == Len(c)
    IN  <<XorBits(c[n], RoundF(c[1], k), ByteBits)>> \o SubSeq(c, 1, n - 1)

RECURSIVE EncRounds(_, _, _)
EncRounds(k, b, r) ==
    IF r = 0 THEN b ELSE EncRounds(k, EncRound(k + r, b), r - 1)

RECURSIVE DecRounds(_, _, _, _)
DecRounds(k, c, r, top) ==
    IF r > top THEN c ELSE DecRounds(k, DecRound(k + r, c), r + 1, top)

encrypt_block(k, b) == EncRounds(k, b, Len(b) + 1)
decrypt_block(k, c) == DecRounds(k, c, 1, Len(c) + 1)

\* Xts::process_inplace: the engine's single-block primitive.
process_inplace(k, dec, b) ==
    IF dec THEN decrypt_block(k, b) ELSE encrypt_block(k, b)

(***************************************************************************)
(* Slices of the buffer.  Offsets are 0-based as in the source.            *)
(***************************************************************************)
BlockAt(buf, o) == SubSeq(buf, o + 1, o + BlockSize)

Splice(buf, o, blk) ==
    [i \in 1..Len(buf) |->
       IF o < i /\ i <= o + Len(blk) THEN blk[i - o] ELSE buf[i]]

\* One invocation of the cipher primitive: where, and the tweaks XORed
\* before and after it.
Call(o, t1, t2) == [pos |-> o, pre |-> t1, post |-> t2]

(***************************************************************************)
(* Xts::process_block_inplace on the block at offset o.                    *)
(* st = [buf, iv, calls].                                                  *)
(***************************************************************************)
process_block_inplace(st, o, k, dec) ==
    LET x1 == xor(BlockAt(st.buf, o), st.iv)
        y  == process_inplace(k, dec, x1)
        x2 == xor(y, st.iv)
    IN  [buf   |-> Splice(st.buf, o, x2),
         iv    |-> gf_mul(st.iv).iv,
         calls |-> Append(st.calls, Call(o, st.iv, st.iv))]

\* Xts::process_tail_blocks: process_block_inplace on each block in order.
RECURSIVE process_tail_blocks_from(_, _, _, _)
process_tail_blocks_from(st, o, k, dec) ==
    IF o + BlockSize > Len(st.buf) THEN st
    ELSE process_tail_blocks_from(process_block_inplace(st, o, k, dec),
                                  o + BlockSize, k, dec)

process_tail_blocks(st, k, dec) == process_tail_blocks_from(st, 0, k, dec)

\* Xts::process_tail_blocks_inplace: one loop iteration on the block at o.
tail_inplace_step(st, o, k, dec) ==
    LET s1 == [st EXCEPT !.buf = Splice(st.buf, o, xor(BlockAt(st.buf, o), st.iv))]
        s2 == process_block_inplace(s1, o, k, dec)
        s3 == [s2 EXCEPT !.buf = Splice(s2.buf, o, xor(BlockAt(s2.buf, o), s2.iv))]
    IN  [s3 EXCEPT !.iv = gf_mul(s3.iv).iv]

RECURSIVE process_tail_blocks_inplace_from(_, _, _, _)
process_tail_blocks_inplace_from(st, o, k, dec) ==
    IF o + BlockSize > Len(st.buf) THEN st
    ELSE process_tail_blocks_inplace_from(tail_inplace_step(st, o, k, dec),
                                          o + BlockSize, k, dec)

process_tail_blocks_inplace(st, k, dec) ==
    process_tail_blocks_inplace_from(st, 0, k, dec)

(***************************************************************************)
(* Xts::process_par_blocks_inplace.                                        *)
(***************************************************************************)
\* First loop: save the tweak of each lane, XOR the lane, advance the tweak.
RECURSIVE par_xor_in(_, _, _, _)
par_xor_in(buf, t, ivs, i) ==
    IF (i + 1) * BlockSize > Len(buf) THEN [buf |-> buf, iv |-> t, iv_array |-> ivs]
    ELSE par_xor_in(Splice(buf, i * BlockSize, xor(BlockAt(buf, i * BlockSize), t)),
                    gf_mul(t).iv, Append(ivs, t), i + 1)

\* Xts::process_par_inplace: the single-block primitive on every lane.
process_par_inplace(k, dec, buf) ==
    [i \in 1..Len(buf) |->
       process_inplace(k, dec,
           BlockAt(buf, ((i - 1) \div BlockSize) * BlockSize))[((i - 1) % BlockSize) + 1]]

\* Second loop: XOR every lane with its saved tweak.
par_xor_out(buf, ivs) ==
    [i \in 1..Len(buf) |->
       XorBits(buf[i], ivs[((i - 1) \div BlockSize) + 1][((i - 1) % BlockSize) + 1],
               ByteBits)]

ParCalls(ivs) ==
    [i \in 1..Len(ivs) |-> Call((i - 1) * BlockSize, ivs[i], ivs[i])]

\* As a bug would have it: the second loop XORs every lane with the live
\* tweak instead of the lane's saved one.
process_par_blocks_inplace_live(st, k, dec) ==
    LET a == par_xor_in(st.buf, st.iv, <<>>, 0)
        b == process_par_inplace(k, dec, a.buf)
    IN  [buf   |-> par_xor_out(b, [i \in 1..Len(a.iv_array) |-> a.iv]),
         iv    |-> a.iv,
         calls |-> st.calls \o ParCalls(a.iv_array)]

process_par_blocks_inplace(st, k, dec) ==
    LET a == par_xor_in(st.buf, st.iv, <<>>, 0)
        b == process_par_inplace(k, dec, a.buf)
    IN  [buf   |-> par_xor_out(b, a.iv_array),
         iv    |-> a.iv,
         calls |-> st.calls \o ParCalls(a.iv_array)]

(***************************************************************************)
(* XtsMode::ciphertext_stealing on the region buf[b..], in three steps.    *)
(***************************************************************************)
\* The decrypt branch, fast-forwarding the tweak and stepping it back.
cts_lookahead(st, b, k, dec) ==
    LET g  == gf_mul(st.iv)
        x1 == xor(BlockAt(st.buf, b), g.iv)
        y  == process_inplace(k, dec, x1)
        x2 == xor(y, g.iv)
    IN  [buf   |-> Splice(st.buf, b, x2),
         iv    |-> gf_reverse_mul(g.iv, g.carry),
         calls |-> Append(st.calls, Call(b, g.iv, g.iv))]

\* As bugs would have it: no look-ahead on decrypt; no restore after it;
\* the look-ahead taken on encrypt instead of decrypt.
cts_first_no_lookahead(st, b, k, dec) == process_block_inplace(st, b, k, dec)

cts_first_no_restore(st, b, k, dec) ==
    IF dec
    THEN [cts_lookahead(st, b, k, dec) EXCEPT !.iv = gf_mul(st.iv).iv]
    ELSE process_block_inplace(st, b, k, dec)

cts_first_flipped(st, b, k, dec) ==
    IF ~dec
    THEN cts_lookahead(st, b, k, dec)
    ELSE process_block_inplace(st, b, k, dec)

\* Lines 171-199: the second-to-last block.
cts_first(st, b, k, dec) ==
    IF dec
    THEN cts_lookahead(st, b, k, dec)
    ELSE process_block_inplace(st, b, k, dec)

\* Lines 202-206: swap the first remaining_bytes bytes of the two parts.
cts_swap(st, b) ==
    LET remaining_bytes == (Len(st.buf) - b) - BlockSize
    IN  [st EXCEPT !.buf =
           [i \in 1..Len(st.buf) |->
              IF b < i /\ i <= b + remaining_bytes
              THEN st.buf[i + BlockSize]
              ELSE IF b + BlockSize < i /\ i <= b + BlockSize + remaining_bytes
                   THEN st.buf[i - BlockSize]
                   ELSE st.buf[i]]]

\* Lines 209-212: the block assembled by the swap.
cts_last(st, b, k, dec) == process_block_inplace(st, b, k, dec)

(***************************************************************************)
(* The state: one engine, one buffer, and the position of the call.        *)
(***************************************************************************)
VARIABLES
    op,            \* the entry point the caller invokes
    pass,          \* 1: the first call; 2: the inverse call of a round trip
    pc,            \* position inside the call
    buffer,        \* the caller's bytes
    iv,            \* the tweak held by the engine (get_iv_mut)
    key,           \* the engine's key
    is_decrypt,    \* the engine's direction
    need_stealing, \* local of process_all_in_place
    split,         \* end of the leading run handed to the block loop
    off,           \* offset of the next block of the loop
    base,          \* start of the region handed to ciphertext_stealing
    result,        \* "none", "Ok", "Err", "returned"
    calls,         \* the invocations of the cipher primitive, in order
    stole,         \* how many times ciphertext_stealing was entered
    cts_iv,        \* the tweak on entry to ciphertext_stealing
    plain,         \* the bytes before the first call
    buffer0,       \* the bytes on entry to the current call
    iv0            \* the tweak on entry to the current call

vars == <<op, pass, pc, buffer, iv, key, is_decrypt, need_stealing, split, off,
          base, result, calls, stole, cts_iv, plain, buffer0, iv0>>

Ops == {"all", "steal", "par", "tail_inplace", "tail"}

BufferOf(s, n) == [i \in 1..n |-> (s * 101 + i * i * 37 + i * 11 + 5) % ByteMod]

TweakOf(s) ==
    [i \in 1..BlockSize |->
       IF i = BlockSize THEN (s % 2) * (ByteMod \div 2) + 3 * s + 1
       ELSE (s * 89 + 7 * i) % ByteMod]

Buffers == {BufferOf(s, n) : s \in 0..(NumBufs - 1), n \in 0..MaxLen}
Tweaks == {TweakOf(s) : s \in 0..(NumTweaks - 1)}
Keys == 1..NumKeys

\* The region a direct caller of ciphertext_stealing hands over: a full
\* block followed by a short remainder.
StealBases(buf) ==
    {b \in 0..Len(buf) : BlockSize < Len(buf) - b /\ Len(buf) - b < 2 * BlockSize}

Init ==
    /\ op \in Ops
    /\ pass = 1
    /\ pc = "call"
    /\ buffer \in Buffers
    /\ iv \in Tweaks
    /\ key \in Keys
    /\ is_decrypt \in BOOLEAN
    /\ need_stealing = FALSE
    /\ split = 0
    /\ off = 0
    /\ base \in (IF op = "steal" THEN StealBases(buffer) ELSE {0})
    /\ op = "par" => Len(buffer) = ParBlocksSize * BlockSize
    /\ op \in {"tail_inplace", "tail"} =>
          Len(buffer) % BlockSize = 0 /\ Len(buffer) <= MaxBlocks * BlockSize
    /\ op = "all" => Len(buffer) <= MaxBlocks * BlockSize + (BlockSize - 1)
    /\ result = "none"
    /\ calls = <<>>
    /\ stole = 0
    /\ cts_iv = iv
    /\ plain = buffer
    /\ buffer0 = buffer
    /\ iv0 = iv

St == [buf |-> buffer, iv |-> iv, calls |-> calls]

Store(st) ==
    /\ buffer' = st.buf
    /\ iv' = st.iv
    /\ calls' = st.calls

(***************************************************************************)
(* XtsMode::process_all_in_place.                                          *)
(***************************************************************************)
\* The length check as a bug would have it: a one-block buffer is refused.
TooShortOffByOne(len) == len <= BlockSize

\* Line 130.
TooShort(len) == len < BlockSize

\* Line 134.
NeedStealing(len) == len % BlockSize = 0

\* Lines 126-140: the length check, the flag and the split.
process_all_in_place ==
    /\ op = "all" /\ pc = "call"
    /\ IF TooShort(Len(buffer))
       THEN /\ result' = "Err"
            /\ pc' = "done"
            /\ UNCHANGED <<need_stealing, split>>
       ELSE /\ need_stealing' = NeedStealing(Len(buffer))
            /\ split' = IF NeedStealing(Len(buffer))
                        THEN (Len(buffer) \div BlockSize - 1) * BlockSize
                        ELSE Len(buffer)
            /\ pc' = "loop"
            /\ UNCHANGED result
    /\ off' = 0
    /\ UNCHANGED <<op, pass, buffer, iv, key, is_decrypt, base, calls, stole,
                   cts_iv, plain, buffer0, iv0>>

\* Lines 158-160: one iteration over chunks_exact_mut(block_size).
loop_block ==
    /\ pc = "loop"
    /\ off + BlockSize <= split
    /\ Store(process_block_inplace(St, off, key, is_decrypt))
    /\ off' = off + BlockSize
    /\ UNCHANGED <<op, pass, pc, key, is_decrypt, need_stealing, split, base,
                   result, stole, cts_iv, plain, buffer0, iv0>>

\* Lines 163-167: the loop is exhausted; enter the finisher or return Ok.
loop_exit ==
    /\ pc = "loop"
    /\ off + BlockSize > split
    /\ IF need_stealing
       THEN /\ pc' = "cts_first"
            /\ base' = split
            /\ stole' = stole + 1
            /\ cts_iv' = iv
            /\ UNCHANGED result
       ELSE /\ pc' = "done"
            /\ result' = "Ok"
            /\ UNCHANGED <<base, stole, cts_iv>>
    /\ UNCHANGED <<op, pass, buffer, iv, key, is_decrypt, need_stealing, split,
                   off, calls, plain, buffer0, iv0>>

(***************************************************************************)
(* XtsMode::ciphertext_stealing.                                           *)
(***************************************************************************)
\* A direct call of the finisher on buffer[base..].
call_ciphertext_stealing ==
    /\ op = "steal" /\ pc = "call"
    /\ pc' = "cts_first"
    /\ stole' = stole + 1
    /\ cts_iv' = iv
    /\ UNCHANGED <<op, pass, buffer, iv, key, is_decrypt, need_stealing, split,
                   off, base, result, calls, plain, buffer0, iv0>>

ciphertext_stealing_first ==
    /\ pc = "cts_first"
    /\ Store(cts_first(St, base, key, is_decrypt))
    /\ pc' = "cts_swap"
    /\ UNCHANGED <<op, pass, key, is_decrypt, need_stealing, split, off, base,
                   result, stole, cts_iv, plain, buffer0, iv0>>

ciphertext_stealing_swap ==
    /\ pc = "cts_swap"
    /\ Store(cts_swap(St, base))
    /\ pc' = "cts_last"
    /\ UNCHANGED <<op, pass, key, is_decrypt, need_stealing, split, off, base,
                   result, stole, cts_iv, plain, buffer0, iv0>>

\* The last block, and the return to the caller (line 167 when the caller
\* is process_all_in_place).
ciphertext_stealing_last ==
    /\ pc = "cts_last"
    /\ Store(cts_last(St, base, key, is_decrypt))
    /\ pc' = "done"
    /\ result' = IF op = "all" THEN "Ok" ELSE "returned"
    /\ UNCHANGED <<op, pass, key, is_decrypt, need_stealing, split, off, base,
                   stole, cts_iv, plain, buffer0, iv0>>

(***************************************************************************)
(* Direct calls of the batch and tail processors.                          *)
(***************************************************************************)
call_process_par_blocks_inplace ==
    /\ op = "par" /\ pc = "call"
    /\ Store(process_par_blocks_inplace(St, key, is_decrypt))
    /\ pc' = "done"
    /\ result' = "returned"
    /\ UNCHANGED <<op, pass, key, is_decrypt, need_stealing, split, off, base,
                   stole, cts_iv, plain, buffer0, iv0>>

call_process_tail_blocks_inplace ==
    /\ op = "tail_inplace" /\ pc = "call"
    /\ Store(process_tail_blocks_inplace(St, key, is_decrypt))
    /\ pc' = "done"
    /\ result' = "returned"
    /\ UNCHANGED <<op, pass, key, is_decrypt, need_stealing, split, off, base,
                   stole, cts_iv, plain, buffer0, iv0>>

call_process_tail_blocks ==
    /\ op = "tail" /\ pc = "call"
    /\ Store(process_tail_blocks(St, key, is_decrypt))
    /\ pc' = "done"
    /\ result' = "returned"
    /\ UNCHANGED <<op, pass, key, is_decrypt, need_stealing, split, off, base,
                   stole, cts_iv, plain, buffer0, iv0>>

(***************************************************************************)
(* The round trip: after an encrypt-direction call has returned, the       *)
(* caller runs the same entry point on the same bytes with a               *)
(* decrypt-direction engine that starts from the same tweak.               *)
(***************************************************************************)
decrypt_after_encrypt ==
    /\ op \in {"all", "steal"}
    /\ pc = "done" /\ pass = 1
    /\ ~is_decrypt
    /\ result \in {"Ok", "returned"}
    /\ pass' = 2
    /\ is_decrypt' = TRUE
    /\ iv' = iv0
    /\ buffer0' = buffer
    /\ pc' = "call"
    /\ result' = "none"
    /\ calls' = <<>>
    /\ stole' = 0
    /\ cts_iv' = iv0
    /\ need_stealing' = FALSE
    /\ split' = 0
    /\ off' = 0
    /\ UNCHANGED <<op, buffer, key, base, plain, iv0>>

Next ==
    \/ process_all_in_place
    \/ loop_block
    \/ loop_exit
    \/ call_ciphertext_stealing
    \/ ciphertext_stealing_first
    \/ ciphertext_stealing_swap
    \/ ciphertext_stealing_last
    \/ call_process_par_blocks_inplace
    \/ call_process_tail_blocks_inplace
    \/ call_process_tail_blocks
    \/ decrypt_after_encrypt

Spec == Init /\ [][Next]_vars

TypeOK ==
    /\ op \in Ops
    /\ pass \in {1, 2}
    /\ pc \in {"call", "loop", "cts_first", "cts_swap", "cts_last", "done"}
    /\ Len(buffer) = Len(plain)
    /\ \A i \in 1..Len(buffer) : buffer[i] \in 0..(ByteMod - 1)
    /\ Len(iv) = BlockSize
    /\ \A i \in 1..BlockSize : iv[i] \in 0..(ByteMod - 1)
    /\ result \in {"none", "Ok", "Err", "returned"}

(***************************************************************************)
(* The properties.                                                         *)
(***************************************************************************)
\* The engine and buffer as they were on entry to the current call.
Entry == [buf |-> buffer0, iv |-> iv0, calls |-> <<>>]

\* Plain sequential XTS over the entry buffer: process_block_inplace on
\* each full block in index order.
Sequential == process_tail_blocks(Entry, key, is_decrypt)

\* The tweak advanced n times.
RECURSIVE GfPow(_, _)
GfPow(t, n) == IF n = 0 THEN t ELSE GfPow(gf_mul(t).iv, n - 1)

\* C1: process_all_in_place with an encrypt-direction engine from tweak T,
\* then with a decrypt-direction engine from the same T, leaves every byte
\* of the buffer as it was (exact multiples and non-zero remainders alike).
C1_RoundTrip ==
    (op = "all" /\ pass = 2 /\ pc = "done") =>
        /\ result = "Ok"
        /\ buffer = plain

\* C1 witness: a two-block buffer went through both calls, the decrypt call
\* ran the finisher, the ciphertext differed and the plaintext is back.
C1_Witness ==
    /\ op = "all" /\ pass = 2 /\ pc = "done"
    /\ Len(plain) = 2 * BlockSize
    /\ stole > 0
    /\ buffer0 # plain
    /\ buffer = plain

\* C2: a buffer shorter than one block makes process_all_in_place return the
\* error with no byte of the buffer and no byte of the tweak changed and the
\* cipher primitive never invoked; any longer buffer returns Ok.
C2_MinimumLength ==
    op = "all" =>
        /\ Len(buffer0) < BlockSize =>
              /\ buffer = buffer0
              /\ iv = iv0
              /\ calls = <<>>
              /\ stole = 0
              /\ pc = "done" => result = "Err"
        /\ (Len(buffer0) >= BlockSize /\ pc = "done") => result = "Ok"

\* C2 witness: a buffer one byte short of a block was refused.
C2_Witness ==
    /\ op = "all" /\ pc = "done"
    /\ Len(buffer0) = BlockSize - 1
    /\ result = "Err"
    /\ buffer = buffer0

\* C3 (as claimed): process_all_in_place enters ciphertext_stealing if and
\* only if the length is not a multiple of the block size.
C3_StealingDispatch ==
    (op = "all" /\ pc = "done" /\ result = "Ok") =>
        (stole > 0 <=> Len(buffer0) % BlockSize # 0)

\* C4 (as claimed): a buffer of n whole blocks comes out as plain sequential
\* XTS, every block i being C(P_i xor T_i) xor T_i, each block passed through
\* the cipher primitive exactly once, in increasing index order.
C4_ExactMultipleSequential ==
    (op = "all" /\ pc = "done" /\ result = "Ok" /\ Len(buffer0) % BlockSize = 0) =>
        /\ buffer = Sequential.buf
        /\ calls = Sequential.calls

\* C5 (as claimed): for a buffer of n whole blocks, when process_all_in_place
\* returns Ok the tweak is the initial tweak advanced exactly n times, for
\* either direction.
C5_FinalTweak ==
    (op = "all" /\ pc = "done" /\ result = "Ok" /\ Len(buffer0) % BlockSize = 0) =>
        iv = GfPow(iv0, Len(buffer0) \div BlockSize)

\* A byte index is handled when it lies in a block passed through the cipher
\* primitive, or in the region the stealing finisher was given.
Handled(i) ==
    \/ \E j \in 1..Len(calls) : calls[j].pos < i /\ i <= calls[j].pos + BlockSize
    \/ stole > 0 /\ i > base

\* C6 (as claimed): whenever process_all_in_place returns Ok every byte index
\* of the buffer has been handled by the block processor or by the finisher;
\* in particular the trailing r bytes of a buffer of n blocks and r bytes.
C6_NoPartialSuccess ==
    (op = "all" /\ pc = "done" /\ result = "Ok") =>
        \A i \in 1..Len(buffer) : Handled(i)

\* C7: process_par_blocks_inplace leaves the same bytes and the same final
\* tweak (the initial one advanced N times) as process_block_inplace on the
\* N blocks in index order, lane i being XORed before and after the cipher
\* with the initial tweak advanced i times.
C7_BatchEqualsSequential ==
    (op = "par" /\ pc = "done") =>
        /\ buffer = Sequential.buf
        /\ iv = Sequential.iv
        /\ iv = GfPow(iv0, ParBlocksSize)
        /\ Len(calls) = ParBlocksSize
        /\ \A i \in 1..Len(calls) :
              calls[i] = Call((i - 1) * BlockSize, GfPow(iv0, i - 1), GfPow(iv0, i - 1))

\* C7 witness: a batch call returned with every lane transformed.
C7_Witness ==
    /\ op = "par" /\ pc = "done"
    /\ Len(calls) = ParBlocksSize
    /\ \A i \in 0..(ParBlocksSize - 1) :
          BlockAt(buffer, i * BlockSize) # BlockAt(buffer0, i * BlockSize)
    /\ iv # iv0

\* C8: ciphertext_stealing on a region of one block and r bytes, 0 < r <
\* block size, with an encrypt-direction engine at tweak T and then with a
\* decrypt-direction engine at T restores every byte of the region, keeps the
\* length, and never writes a byte outside the region.
C8_StealingRoundTrip ==
    op = "steal" =>
        /\ Len(buffer) = Len(plain)
        /\ \A i \in 1..base : buffer[i] = plain[i]
        /\ (pass = 2 /\ pc = "done") => buffer = plain

\* C8 witness: a region behind a non-empty prefix was encrypted (both parts
\* changed) and decrypted back.
C8_Witness ==
    /\ op = "steal" /\ pass = 2 /\ pc = "done"
    /\ base > 0
    /\ BlockAt(buffer0, base) # BlockAt(plain, base)
    /\ SubSeq(buffer0, base + BlockSize + 1, Len(buffer0))
          # SubSeq(plain, base + BlockSize + 1, Len(plain))
    /\ buffer = plain

\* The tweaks the finisher is to use, from its entry tweak T = cts_iv.
CtsFirstTweak == IF is_decrypt THEN gf_mul(cts_iv).iv ELSE cts_iv
CtsLastTweak == IF is_decrypt THEN cts_iv ELSE gf_mul(cts_iv).iv

\* C9: in ciphertext_stealing with entry tweak T, a decrypt-direction engine
\* XORs the second-to-last block before and after the cipher with T advanced
\* one step, then holds exactly T again, and processes the assembled block
\* with T; an encrypt-direction engine uses T and then T advanced one step.
C9_LookaheadRestore ==
    /\ pc \in {"cts_swap", "cts_last"} =>
          /\ calls # <<>>
          /\ calls[Len(calls)] = Call(base, CtsFirstTweak, CtsFirstTweak)
          /\ iv = CtsLastTweak
    /\ (pc = "done" /\ stole > 0) =>
          /\ Len(calls) >= 2
          /\ calls[Len(calls) - 1] = Call(base, CtsFirstTweak, CtsFirstTweak)
          /\ calls[Len(calls)] = Call(base, CtsLastTweak, CtsLastTweak)

\* C9 witness: a decrypt-direction finisher has processed the second-to-last
\* block on a tweak whose advance overflows, and holds the entry tweak again.
C9_Witness ==
    /\ op = "steal" /\ pc = "cts_swap"
    /\ is_decrypt
    /\ gf_mul(cts_iv).carry = 1
    /\ calls[Len(calls)].pre = gf_mul(cts_iv).iv
    /\ iv = cts_iv

\* C10 (as claimed): process_tail_blocks_inplace leaves the same bytes and
\* the same final tweak (advanced once per block) as process_tail_blocks and
\* as successive calls of process_block_inplace.
C10_TailInplaceEqualsSequential ==
    (op = "tail_inplace" /\ pc = "done") =>
        /\ buffer = Sequential.buf
        /\ iv = Sequential.iv
        /\ iv = GfPow(iv0, Len(buffer0) \div BlockSize)

====
